---- MODULE Spec2Model ----
(***************************************************************************)
(* Soil data collection (coleta_dados_solo.ino): a timer-gated loop that   *)
(* prepends simulated samples to a singly linked list and, every 16        *)
(* samples, averages them without the minimum- and maximum-temperature     *)
(* nodes, decides on irrigation, prints a report and frees the list.       *)
(*                                                                         *)
(* Sensor values are held in tenths (15.0 C is 150).  An average is the    *)
(* exact quotient [num, den] standing for num / (10 * den).                *)
(***************************************************************************)
EXTENDS Integers, Sequences, FiniteSets, TLC

\* ---------------------------------------------------------------- constants
SAMPLE_INTERVAL == 10000
SAMPLES_PER_CYCLE == 16

\* ---------------------------------------------------------------- bounds
\* Width of the millisecond counter in the model (the board's is 32 bits).
TimerBits == 20
\* The clock advances in steps of TickStep ms, up to MaxMillis.
TickStep == 5000
MaxMillis == 330000
\* rand() returns RandBase except for at most MaxVaried draws of a run.
RandBase == 250
MaxVaried == 1
\* Largest value rand() returns.
RandMax == 32767
\* Heap capacity in nodes; the harness stops collecting at this length.
MaxSamples == 17
\* A run across the wrap of the counter stops the clock after this many samples.
MaxWrapSamples == 17

NULL == 0
Addr == 1..MaxSamples
Wrap == 2 ^ TimerBits
RandVals == {40, RandBase, RandMax}
RandAll == 0..RandMax

VARIABLES heap, dataListHead, sampleCount, lastSampleTime, now, pc, out, op, varied, hist

vars == <<heap, dataListHead, sampleCount, lastSampleTime, now, pc, out, op, varied, hist>>

\* ---------------------------------------------------------------- sensors
\* Variant: the offset of 15.0 is left out.
readSimulatedTemperature_NoOffset(r) == r % 200

readSimulatedTemperature(r) == 150 + (r % 200)

readSimulatedHumidity(r) == 300 + (r % 600)

readSimulatedSalinity(r) == 5 + (r % 35)

NewSample(r1, r2, r3) ==
  [temperature |-> readSimulatedTemperature(r1),
   humidity |-> readSimulatedHumidity(r2),
   salinity |-> readSimulatedSalinity(r3)]

\* ---------------------------------------------------------------- the list
\* new Node: the lowest free address.
NewNode(h) == CHOOSE a \in Addr \ DOMAIN h : \A b \in Addr \ DOMAIN h : a <= b

\* Variant: the new node goes behind the last node.
PushFront_AtBack(h, head, s) ==
  LET a == NewNode(h)
  IN  [heap |-> [x \in DOMAIN h \cup {a} |->
                   IF x = a THEN [data |-> s, next |-> NULL]
                   ELSE IF h[x].next = NULL THEN [data |-> h[x].data, next |-> a]
                   ELSE h[x]],
       head |-> IF head = NULL THEN a ELSE head]

\* collectSample's list update: the new node goes in front of the old head.
PushFront(h, head, s) ==
  LET a == NewNode(h)
  IN  [heap |-> [x \in DOMAIN h \cup {a} |->
                   IF x = a THEN [data |-> s, next |-> head] ELSE h[x]],
       head |-> a]

RECURSIVE FreeAll_LeaksLast(_, _)
\* Variant: the loop stops at the last node instead of behind it.
FreeAll_LeaksLast(h, cur) ==
  IF cur = NULL \/ h[cur].next = NULL THEN h
  ELSE FreeAll_LeaksLast([x \in DOMAIN h \ {cur} |-> h[x]], h[cur].next)

RECURSIVE FreeAll(_, _)
\* clearList's loop: deletes every node from cur on.
FreeAll(h, cur) ==
  IF cur = NULL THEN h
  ELSE FreeAll([x \in DOMAIN h \ {cur} |-> h[x]], h[cur].next)

RECURSIVE NodesFrom(_, _)
\* The addresses reached from cur by following next, in order.
NodesFrom(h, cur) ==
  IF cur = NULL THEN <<>> ELSE <<cur>> \o NodesFrom(h, h[cur].next)

\* ---------------------------------------------------------------- processing
RECURSIVE MinMaxScan_LastMax(_, _, _, _)
\* Variant: the maximum is compared with >=, so the last of equal maxima wins.
MinMaxScan_LastMax(h, current, minNode, maxNode) ==
  IF current = NULL THEN <<minNode, maxNode>>
  ELSE MinMaxScan_LastMax(h, h[current].next,
         IF h[current].data.temperature < h[minNode].data.temperature
           THEN current ELSE minNode,
         IF h[current].data.temperature >= h[maxNode].data.temperature
           THEN current ELSE maxNode)

RECURSIVE MinMaxScan_LastMin(_, _, _, _)
\* Variant: the minimum is compared with <=, so the last of equal minima wins.
MinMaxScan_LastMin(h, current, minNode, maxNode) ==
  IF current = NULL THEN <<minNode, maxNode>>
  ELSE MinMaxScan_LastMin(h, h[current].next,
         IF h[current].data.temperature <= h[minNode].data.temperature
           THEN current ELSE minNode,
         IF h[current].data.temperature > h[maxNode].data.temperature
           THEN current ELSE maxNode)

RECURSIVE MinMaxScan(_, _, _, _)
\* First pass of processAndReportData: <<minNode, maxNode>>.
MinMaxScan(h, current, minNode, maxNode) ==
  IF current = NULL THEN <<minNode, maxNode>>
  ELSE MinMaxScan(h, h[current].next,
         IF h[current].data.temperature < h[minNode].data.temperature
           THEN current ELSE minNode,
         IF h[current].data.temperature > h[maxNode].data.temperature
           THEN current ELSE maxNode)

RECURSIVE SumPass_ByValue(_, _, _, _, _)
\* Variant: every node with the temperature of minNode or maxNode is left out.
SumPass_ByValue(h, current, minNode, maxNode, acc) ==
  IF current = NULL THEN acc
  ELSE SumPass_ByValue(h, h[current].next, minNode, maxNode,
         IF /\ h[current].data.temperature /= h[minNode].data.temperature
            /\ h[current].data.temperature /= h[maxNode].data.temperature
           THEN [sumTemp |-> acc.sumTemp + h[current].data.temperature,
                 sumHum |-> acc.sumHum + h[current].data.humidity,
                 sumSal |-> acc.sumSal + h[current].data.salinity,
                 remainingCount |-> acc.remainingCount + 1]
           ELSE acc)

RECURSIVE SumPass_TemperatureOnly(_, _, _, _, _)
\* Variant: only the temperature of minNode and maxNode is left out.
SumPass_TemperatureOnly(h, current, minNode, maxNode, acc) ==
  IF current = NULL THEN acc
  ELSE SumPass_TemperatureOnly(h, h[current].next, minNode, maxNode,
         IF current /= minNode /\ current /= maxNode
           THEN [sumTemp |-> acc.sumTemp + h[current].data.temperature,
                 sumHum |-> acc.sumHum + h[current].data.humidity,
                 sumSal |-> acc.sumSal + h[current].data.salinity,
                 remainingCount |-> acc.remainingCount + 1]
           ELSE [sumTemp |-> acc.sumTemp,
                 sumHum |-> acc.sumHum + h[current].data.humidity,
                 sumSal |-> acc.sumSal + h[current].data.salinity,
                 remainingCount |-> acc.remainingCount])

RECURSIVE SumPass(_, _, _, _, _)
\* Second pass: the sums and the count over the nodes that are neither
\* minNode nor maxNode.
SumPass(h, current, minNode, maxNode, acc) ==
  IF current = NULL THEN acc
  ELSE SumPass(h, h[current].next, minNode, maxNode,
         IF current /= minNode /\ current /= maxNode
           THEN [sumTemp |-> acc.sumTemp + h[current].data.temperature,
                 sumHum |-> acc.sumHum + h[current].data.humidity,
                 sumSal |-> acc.sumSal + h[current].data.salinity,
                 remainingCount |-> acc.remainingCount + 1]
           ELSE acc)

\* sum / remainingCount, kept exact.
Avg(sum, cnt) == [num |-> sum, den |-> cnt]

\* a < b / 10 and a > b / 10 for an average a and a threshold of b tenths.
Below(a, b) == a.num < b * a.den

Above(a, b) == a.num > b * a.den

\* Variant: a hot average irrigates at ideal humidity.
decideIrrigation_HeatAware(temp, hum, sal) ==
  IF Below(hum, 450)
    THEN IF Above(sal, 30) THEN "NAO IRRIGAR (Risco de Salinidade Alta)"
         ELSE "IRRIGAR (Umidade Baixa)"
  ELSE IF Above(hum, 800) THEN "NAO IRRIGAR (Umidade Alta)"
  ELSE IF Above(temp, 300) THEN "IRRIGAR (Umidade Baixa)"
  ELSE "NAO IRRIGAR (Nivel Ideal)"

\* Variant: the humidity thresholds are inclusive.
decideIrrigation_Inclusive(temp, hum, sal) ==
  IF ~Above(hum, 450)
    THEN IF Above(sal, 30) THEN "NAO IRRIGAR (Risco de Salinidade Alta)"
         ELSE "IRRIGAR (Umidade Baixa)"
  ELSE IF ~Below(hum, 800) THEN "NAO IRRIGAR (Umidade Alta)"
  ELSE "NAO IRRIGAR (Nivel Ideal)"

decideIrrigation(temp, hum, sal) ==
  IF Below(hum, 450)
    THEN IF Above(sal, 30) THEN "NAO IRRIGAR (Risco de Salinidade Alta)"
         ELSE "IRRIGAR (Umidade Baixa)"
  ELSE IF Above(hum, 800) THEN "NAO IRRIGAR (Umidade Alta)"
  ELSE "NAO IRRIGAR (Nivel Ideal)"

\* The report's content: the count, the three averages and the decision.
printReport(temp, hum, sal, decision, count) ==
  [line |-> "report", count |-> count, temp |-> temp, hum |-> hum,
   sal |-> sal, decision |-> decision]

\* Variant: only a counter below 16 returns early.
processAndReportData_OnlyBelow(h, head, count) ==
  IF count < SAMPLES_PER_CYCLE THEN <<>>
  ELSE LET mm == MinMaxScan(h, head, head, head)
           acc == SumPass(h, head, mm[1], mm[2],
                    [sumTemp |-> 0, sumHum |-> 0, sumSal |-> 0,
                     remainingCount |-> 0])
           avgTemp == Avg(acc.sumTemp, acc.remainingCount)
           avgHum == Avg(acc.sumHum, acc.remainingCount)
           avgSal == Avg(acc.sumSal, acc.remainingCount)
       IN  <<[line |-> "min", temperature |-> h[mm[1]].data.temperature],
             [line |-> "max", temperature |-> h[mm[2]].data.temperature],
             printReport(avgTemp, avgHum, avgSal,
                         decideIrrigation(avgTemp, avgHum, avgSal),
                         acc.remainingCount)>>

\* The lines processAndReportData prints; it writes no program state.
processAndReportData(h, head, count) ==
  IF count /= SAMPLES_PER_CYCLE THEN <<>>
  ELSE LET mm == MinMaxScan(h, head, head, head)
           acc == SumPass(h, head, mm[1], mm[2],
                    [sumTemp |-> 0, sumHum |-> 0, sumSal |-> 0,
                     remainingCount |-> 0])
           avgTemp == Avg(acc.sumTemp, acc.remainingCount)
           avgHum == Avg(acc.sumHum, acc.remainingCount)
           avgSal == Avg(acc.sumSal, acc.remainingCount)
       IN  <<[line |-> "min", temperature |-> h[mm[1]].data.temperature],
             [line |-> "max", temperature |-> h[mm[2]].data.temperature],
             printReport(avgTemp, avgHum, avgSal,
                         decideIrrigation(avgTemp, avgHum, avgSal),
                         acc.remainingCount)>>

\* ---------------------------------------------------------------- operations
\* Variant: a counter below the timestamp counts as no time elapsed.
Elapsed_NoWrap(m, last) == IF m >= last THEN m - last ELSE 0

\* millis() - lastSampleTime in unsigned arithmetic.
Elapsed(m, last) == (m - last) % Wrap

\* The number of draws that are not RandBase.
Varied(r1, r2, r3) ==
  (IF r1 = RandBase THEN 0 ELSE 1) + (IF r2 = RandBase THEN 0 ELSE 1)
    + (IF r3 = RandBase THEN 0 ELSE 1)

\* collectSample with the three rand() results r1, r2, r3.
collectSample(r1, r2, r3) ==
  LET p == PushFront(heap, dataListHead, NewSample(r1, r2, r3))
  IN  /\ DOMAIN heap /= Addr
      /\ varied + Varied(r1, r2, r3) <= MaxVaried
      /\ heap' = p.heap
      /\ dataListHead' = p.head
      /\ sampleCount' = sampleCount + 1
      /\ varied' = varied + Varied(r1, r2, r3)

\* Variant: the counter is reset and the list is kept.
clearList_KeepsList ==
  /\ heap' = heap
  /\ dataListHead' = dataListHead
  /\ sampleCount' = 0

\* Variant: the head is reset and no node is deleted.
clearList_NoFree ==
  /\ heap' = heap
  /\ dataListHead' = NULL
  /\ sampleCount' = 0

\* Variant: the counter is not reset.
clearList_KeepsCount ==
  /\ heap' = FreeAll(heap, dataListHead)
  /\ dataListHead' = NULL
  /\ sampleCount' = sampleCount

clearList ==
  /\ heap' = FreeAll(heap, dataListHead)
  /\ dataListHead' = NULL
  /\ sampleCount' = 0

\* What a run has done so far: the samples collected and the reports printed
\* since the start, and the real time in ms since the last sample was stamped.
NoHistory == [samples |-> 0, reports |-> 0, since |-> 0]

Init ==
  /\ heap = << >>
  /\ dataListHead = NULL
  /\ sampleCount = 0
  /\ lastSampleTime = 0
  /\ now = 0
  /\ pc = "idle"
  /\ out = << >>
  /\ op = "setup"
  /\ varied = 0
  /\ hist = NoHistory

\* The millisecond counter advances while the gate is closed.
Tick ==
  /\ Elapsed(now, lastSampleTime) < SAMPLE_INTERVAL
  /\ now + TickStep <= MaxMillis
  /\ now' = (now + TickStep) % Wrap
  /\ UNCHANGED <<heap, dataListHead, sampleCount, lastSampleTime, pc, out, op, varied>>

\* loop() with the gate closed: nothing happens.
LoopIdle ==
  /\ pc = "idle"
  /\ Elapsed(now, lastSampleTime) < SAMPLE_INTERVAL
  /\ out' = << >>
  /\ op' = "loop"
  /\ UNCHANGED <<heap, dataListHead, sampleCount, lastSampleTime, now, pc, varied>>

\* Variant: the timestamp is not updated.
LoopSample_NoTimestamp ==
  /\ pc = "idle"
  /\ Elapsed(now, lastSampleTime) >= SAMPLE_INTERVAL
  /\ lastSampleTime' = lastSampleTime
  /\ \E r1, r2, r3 \in RandVals : collectSample(r1, r2, r3)
  /\ out' = <<[line |-> "status", count |-> sampleCount',
               temperature |-> heap'[dataListHead'].data.temperature]>>
  /\ pc' = "sampling"
  /\ op' = "collectSample"
  /\ UNCHANGED now

\* loop() with the gate open: timestamp, collectSample, status line.
LoopSample ==
  /\ pc = "idle"
  /\ Elapsed(now, lastSampleTime) >= SAMPLE_INTERVAL
  /\ lastSampleTime' = now
  /\ \E r1, r2, r3 \in RandVals : collectSample(r1, r2, r3)
  /\ out' = <<[line |-> "status", count |-> sampleCount',
               temperature |-> heap'[dataListHead'].data.temperature]>>
  /\ pc' = "sampling"
  /\ op' = "collectSample"
  /\ UNCHANGED now

\* Variant: the cycle ends one sample late.
LoopCycle_OneLate ==
  /\ pc = "sampling"
  /\ IF sampleCount = SAMPLES_PER_CYCLE + 1
       THEN /\ pc' = "processing"
            /\ out' = Append(out, [line |-> "cycle"])
       ELSE /\ pc' = "idle"
            /\ out' = out
  /\ op' = "loop"
  /\ UNCHANGED <<heap, dataListHead, sampleCount, lastSampleTime, now, varied>>

\* Variant: the cycle ends one sample early.
LoopCycle_OffByOne ==
  /\ pc = "sampling"
  /\ IF sampleCount = SAMPLES_PER_CYCLE - 1
       THEN /\ pc' = "processing"
            /\ out' = Append(out, [line |-> "cycle"])
       ELSE /\ pc' = "idle"
            /\ out' = out
  /\ op' = "loop"
  /\ UNCHANGED <<heap, dataListHead, sampleCount, lastSampleTime, now, varied>>

\* Variant: the full cycle is cleared without being processed.
LoopCycle_SkipsProcess ==
  /\ pc = "sampling"
  /\ IF sampleCount = SAMPLES_PER_CYCLE
       THEN /\ pc' = "resetting"
            /\ out' = Append(out, [line |-> "cycle"])
       ELSE /\ pc' = "idle"
            /\ out' = out
  /\ op' = "loop"
  /\ UNCHANGED <<heap, dataListHead, sampleCount, lastSampleTime, now, varied>>

\* loop(): the test of the cycle's end.
LoopCycle ==
  /\ pc = "sampling"
  /\ IF sampleCount = SAMPLES_PER_CYCLE
       THEN /\ pc' = "processing"
            /\ out' = Append(out, [line |-> "cycle"])
       ELSE /\ pc' = "idle"
            /\ out' = out
  /\ op' = "loop"
  /\ UNCHANGED <<heap, dataListHead, sampleCount, lastSampleTime, now, varied>>

\* The list without node a.
Unlink(h, head, a) ==
  [heap |-> [x \in DOMAIN h \ {a} |->
               IF h[x].next = a THEN [data |-> h[x].data, next |-> h[a].next] ELSE h[x]],
   head |-> IF head = a THEN h[a].next ELSE head]

\* Variant: the minimum and the maximum node are taken out of the list.
LoopProcess_Unlinks ==
  /\ pc = "processing"
  /\ out' = out \o processAndReportData(heap, dataListHead, sampleCount)
  /\ LET mm == MinMaxScan(heap, dataListHead, dataListHead, dataListHead)
         u1 == Unlink(heap, dataListHead, mm[1])
         u2 == IF mm[2] = mm[1] THEN u1 ELSE Unlink(u1.heap, u1.head, mm[2])
     IN  heap' = u2.heap /\ dataListHead' = u2.head
  /\ pc' = "resetting"
  /\ op' = "processAndReportData"
  /\ UNCHANGED <<sampleCount, lastSampleTime, now, varied>>

\* loop(): the call of processAndReportData.
LoopProcess ==
  /\ pc = "processing"
  /\ out' = out \o processAndReportData(heap, dataListHead, sampleCount)
  /\ pc' = "resetting"
  /\ op' = "processAndReportData"
  /\ UNCHANGED <<heap, dataListHead, sampleCount, lastSampleTime, now, varied>>

\* loop(): the call of clearList and the closing line.
LoopReset ==
  /\ pc = "resetting"
  /\ clearList
  /\ out' = Append(out, [line |-> "cleared"])
  /\ pc' = "idle"
  /\ op' = "clearList"
  /\ UNCHANGED <<lastSampleTime, now, varied>>

Next == Tick \/ LoopIdle \/ LoopSample \/ LoopCycle \/ LoopProcess \/ LoopReset

\* The lines a step prints: an iteration starts with an empty output.
Printed ==
  IF out' = out THEN << >>
  ELSE IF pc = "idle" THEN out'
  ELSE SubSeq(out', Len(out) + 1, Len(out'))

\* The history of a step, read off what the step did.
Record ==
  hist' = [samples |-> hist.samples + Cardinality(DOMAIN heap' \ DOMAIN heap),
           reports |-> hist.reports
                         + Cardinality({i \in DOMAIN Printed : Printed[i].line = "report"}),
           since |-> IF lastSampleTime' /= lastSampleTime THEN 0
                     ELSE hist.since + ((now' - now) % Wrap)]

\* The program, with its history.
NextRun ==
  \/ Tick /\ Record
  \/ LoopIdle /\ Record
  \/ LoopSample /\ Record
  \/ LoopCycle /\ Record
  \/ LoopProcess /\ Record
  \/ LoopReset /\ Record

Spec == Init /\ [][NextRun]_vars

\* ---------------------------------------------------------------- running on
\* The clock in quarter turns of the counter, without an end: it advances
\* while the gate is closed, and loop() polls before it advances again.
TickLive ==
  /\ Elapsed(now, lastSampleTime) < SAMPLE_INTERVAL
  /\ now' = (now + Wrap \div 4) % Wrap
  /\ UNCHANGED <<heap, dataListHead, sampleCount, lastSampleTime, pc, out, op, varied>>

NextLive ==
  \/ TickLive /\ UNCHANGED hist
  \/ LoopIdle /\ UNCHANGED hist
  \/ LoopSample /\ UNCHANGED hist
  \/ LoopCycle /\ UNCHANGED hist
  \/ LoopProcess /\ UNCHANGED hist
  \/ LoopReset /\ UNCHANGED hist

\* The step of LoopProcess, by the positions it leaves and reaches: the only
\* step of NextLive from "processing", enabled exactly when LoopProcess is.
ProcessStep ==
  /\ pc = "processing"
  /\ pc' = "resetting"

\* The step of LoopReset, in the same way.
ResetStep ==
  /\ pc = "resetting"
  /\ pc' = "idle"

\* loop() is called again and again, and the clock runs.
Fairness ==
  /\ WF_vars(TickLive /\ UNCHANGED hist)
  /\ WF_vars(LoopSample /\ UNCHANGED hist)
  /\ WF_vars(LoopCycle /\ UNCHANGED hist)
  /\ WF_pc(ProcessStep)
  /\ WF_pc(ResetStep)

SpecLive == Init /\ [][NextLive]_vars /\ Fairness

\* ---------------------------------------------------------------- across the wrap
\* The longest time between two polls for which the gate can be exact.
PollGap == Wrap - SAMPLE_INTERVAL

\* The start of the program, with every draw of the run equal to RandBase.
InitWrap ==
  /\ heap = << >>
  /\ dataListHead = NULL
  /\ sampleCount = 0
  /\ lastSampleTime = 0
  /\ now = 0
  /\ pc = "idle"
  /\ out = << >>
  /\ op = "setup"
  /\ varied = MaxVaried
  /\ hist = NoHistory

\* The clock between two polls of loop(): it advances by a short step or by
\* the longest gap, and the counter wraps; a poll that finds the gate open
\* comes before the next advance.
TickWrap ==
  /\ Elapsed(now, lastSampleTime) < SAMPLE_INTERVAL
  /\ hist.samples < MaxWrapSamples
  /\ \E d \in {TickStep, PollGap} : now' = (now + d) % Wrap
  /\ UNCHANGED <<heap, dataListHead, sampleCount, lastSampleTime, pc, out, op, varied>>

NextWrap ==
  \/ TickWrap /\ Record
  \/ LoopIdle /\ Record
  \/ LoopSample /\ Record
  \/ LoopCycle /\ Record
  \/ LoopProcess /\ Record
  \/ LoopReset /\ Record

SpecWrap == InitWrap /\ [][NextWrap]_vars

\* ---------------------------------------------------------------- direct calls
\* The three operations called directly, in any order, between iterations.
CallCollect ==
  /\ pc = "idle"
  /\ \E r1, r2, r3 \in RandVals : collectSample(r1, r2, r3)
  /\ out' = << >>
  /\ op' = "collectSample"
  /\ UNCHANGED <<lastSampleTime, now, pc>>

CallProcess ==
  /\ pc = "idle"
  /\ out' = processAndReportData(heap, dataListHead, sampleCount)
  /\ op' = "processAndReportData"
  /\ UNCHANGED <<heap, dataListHead, sampleCount, lastSampleTime, now, pc, varied>>

CallClear ==
  /\ pc = "idle"
  /\ clearList
  /\ out' = << >>
  /\ op' = "clearList"
  /\ UNCHANGED <<lastSampleTime, now, pc, varied>>

NextOps ==
  \/ CallCollect /\ UNCHANGED hist
  \/ CallProcess /\ UNCHANGED hist
  \/ CallClear /\ UNCHANGED hist

SpecOps == Init /\ [][NextOps]_vars

\* ---------------------------------------------------------------- full cycles
\* rand() results of one sample: three temperatures, two humidity/salinity pairs.
Kinds ==
  {<<t, RandBase, RandBase>> : t \in RandVals} \cup {<<t, 40, RandMax>> : t \in RandVals}

RECURSIVE Collected(_, _)
\* The list after collecting the samples s[1], ..., s[n] in this order.
Collected(s, n) ==
  IF n = 0 THEN [heap |-> << >>, head |-> NULL]
  ELSE LET p == Collected(s, n - 1) IN PushFront(p.heap, p.head, s[n])

\* A full cycle of 16 samples: all of one kind but for the p1-th and the p2-th.
CycleOf(p1, k1, p2, k2, kb) ==
  [i \in 1..SAMPLES_PER_CYCLE |->
     LET k == IF i = p1 THEN k1 ELSE IF i = p2 THEN k2 ELSE kb
     IN  NewSample(k[1], k[2], k[3])]

InitProc ==
  /\ \E p1, p2 \in 1..SAMPLES_PER_CYCLE : \E k1, k2, kb \in Kinds :
       /\ p1 < p2
       /\ LET p == Collected(CycleOf(p1, k1, p2, k2, kb), SAMPLES_PER_CYCLE)
          IN  heap = p.heap /\ dataListHead = p.head
  /\ sampleCount = SAMPLES_PER_CYCLE
  /\ lastSampleTime = 0
  /\ now = 0
  /\ pc = "idle"
  /\ out = << >>
  /\ op = "collectSample"
  /\ varied = 0
  /\ hist = NoHistory

NextProc ==
  \/ CallProcess /\ UNCHANGED hist
  \/ CallClear /\ UNCHANGED hist

SpecProc == InitProc /\ [][NextProc]_vars

\* ---------------------------------------------------------------- the sensors
\* The first sample of a cycle, one of its three draws ranging over all of rand().
ReadTemperature ==
  /\ pc = "idle" /\ sampleCount = 0
  /\ \E r \in RandAll : collectSample(r, RandBase, RandBase)
  /\ out' = << >>
  /\ op' = "collectSample"
  /\ UNCHANGED <<lastSampleTime, now, pc>>

ReadHumidity ==
  /\ pc = "idle" /\ sampleCount = 0
  /\ \E r \in RandAll : collectSample(RandBase, r, RandBase)
  /\ out' = << >>
  /\ op' = "collectSample"
  /\ UNCHANGED <<lastSampleTime, now, pc>>

ReadSalinity ==
  /\ pc = "idle" /\ sampleCount = 0
  /\ \E r \in RandAll : collectSample(RandBase, RandBase, r)
  /\ out' = << >>
  /\ op' = "collectSample"
  /\ UNCHANGED <<lastSampleTime, now, pc>>

NextRead ==
  \/ ReadTemperature /\ UNCHANGED hist
  \/ ReadHumidity /\ UNCHANGED hist
  \/ ReadSalinity /\ UNCHANGED hist

SpecRead == Init /\ [][NextRead]_vars

\* ---------------------------------------------------------------- the decision
\* Averages over 1, 14 or 15 samples, at and next to the given tenths.
\* decideIrrigation is called once, on any of them.
Averages(pts) ==
  {[num |-> d * p + e, den |-> d] : d \in {1, 14, 15}, p \in pts, e \in {-1, 0, 1}}

CallDecide ==
  /\ pc = "idle"
  /\ op = "setup"
  /\ \E temp \in Averages({150, 349}) :
     \E hum \in Averages({300, 450, 600, 800, 899}) :
     \E sal \in Averages({5, 30, 39}) :
       out' = <<[line |-> "decision", temp |-> temp, hum |-> hum, sal |-> sal,
                 decision |-> decideIrrigation(temp, hum, sal)]>>
  /\ op' = "decideIrrigation"
  /\ UNCHANGED <<heap, dataListHead, sampleCount, lastSampleTime, now, pc, varied>>

NextDecide == CallDecide /\ UNCHANGED hist

SpecDecide == Init /\ [][NextDecide]_vars

\* decideIrrigation called twice with the same humidity and salinity and two
\* different temperatures, once per run.
CallDecidePair ==
  /\ pc = "idle"
  /\ op = "setup"
  /\ \E t1, t2 \in Averages({150, 349}) :
     \E hum \in Averages({300, 450, 600, 800, 899}) :
     \E sal \in Averages({5, 30, 39}) :
       /\ t1.den = 14 /\ t2.den = 14 /\ t1 /= t2
       /\ out' = <<[line |-> "decision", temp |-> t1, hum |-> hum, sal |-> sal,
                    decision |-> decideIrrigation(t1, hum, sal)],
                   [line |-> "decision", temp |-> t2, hum |-> hum, sal |-> sal,
                    decision |-> decideIrrigation(t2, hum, sal)]>>
  /\ op' = "decideIrrigation twice"
  /\ UNCHANGED <<heap, dataListHead, sampleCount, lastSampleTime, now, pc, varied>>

NextDecidePair == CallDecidePair /\ UNCHANGED hist

SpecDecidePair == Init /\ [][NextDecidePair]_vars

\* ---------------------------------------------------------------- properties
\* The samples of the list, the front one first.
Samples ==
  LET ns == NodesFrom(heap, dataListHead)
  IN  [i \in 1..Len(ns) |-> heap[ns[i]].data]

HasReport(o) == \E i \in DOMAIN o : o[i].line = "report"

ReportOf(o) == o[CHOOSE i \in DOMAIN o : o[i].line = "report"]

RECURSIVE SumExcept(_, _, _)
\* f[1] + ... + f[n] without the indices in excl.
SumExcept(f, excl, n) ==
  IF n = 0 THEN 0
  ELSE (IF n \in excl THEN 0 ELSE f[n]) + SumExcept(f, excl, n - 1)

Temperatures(S) == [i \in DOMAIN S |-> S[i].temperature]

Humidities(S) == [i \in DOMAIN S |-> S[i].humidity]

Salinities(S) == [i \in DOMAIN S |-> S[i].salinity]

\* The indices of the samples with the lowest and the highest temperature.
ColdestIn(S) == {i \in DOMAIN S : \A j \in DOMAIN S : S[i].temperature <= S[j].temperature}

HottestIn(S) == {i \in DOMAIN S : \A j \in DOMAIN S : S[i].temperature >= S[j].temperature}

\* The report holds the count and the means over the samples not in excl.
ReportExcludes(r, S, excl) ==
  LET n == Len(S) - Cardinality(excl)
  IN  /\ r.count = n
      /\ r.temp = [num |-> SumExcept(Temperatures(S), excl, Len(S)), den |-> n]
      /\ r.hum = [num |-> SumExcept(Humidities(S), excl, Len(S)), den |-> n]
      /\ r.sal = [num |-> SumExcept(Salinities(S), excl, Len(S)), den |-> n]

\* C1: in every reachable state of the program the cycle counter equals the
\* number of nodes reachable from dataListHead.
C1_CounterIsLength == sampleCount = Len(NodesFrom(heap, dataListHead))

\* A second cycle under way: the counter has been reset and counts again.
C1_Witness ==
  /\ now > SAMPLES_PER_CYCLE * SAMPLE_INTERVAL
  /\ sampleCount = 3
  /\ Len(NodesFrom(heap, dataListHead)) = 3

\* C2: the processing pipeline runs, and a report appears in the output, only
\* from a state whose counter is 16 and whose list holds 16 samples.
C2_ReportOnlyAtSixteen ==
  [][(pc = "processing" /\ pc' /= "processing") \/ (HasReport(out') /\ ~HasReport(out))
       => /\ sampleCount = SAMPLES_PER_CYCLE
          /\ Len(NodesFrom(heap, dataListHead)) = SAMPLES_PER_CYCLE
          /\ op' = "processAndReportData"
          /\ HasReport(out')]_vars

C2_Witness ==
  /\ pc = "resetting"
  /\ HasReport(out)
  /\ sampleCount = SAMPLES_PER_CYCLE

\* C3: for 16 samples with a unique minimum-temperature and a unique
\* maximum-temperature entry, the report counts 14 samples and its three
\* means are taken over exactly the other 14 samples.
C3_TrimsBothExtremes ==
  (/\ op = "processAndReportData"
   /\ Cardinality(ColdestIn(Samples)) = 1
   /\ Cardinality(HottestIn(Samples)) = 1)
    => /\ HasReport(out)
       /\ ReportOf(out).count = 14
       /\ ReportExcludes(ReportOf(out), Samples, ColdestIn(Samples) \cup HottestIn(Samples))

\* The coldest and the hottest sample differ from the others in humidity and
\* salinity too, so that leaving them in a sum would show.
C3_Witness ==
  /\ op = "processAndReportData"
  /\ Cardinality(ColdestIn(Samples)) = 1
  /\ Cardinality(HottestIn(Samples)) = 1
  /\ \E i \in ColdestIn(Samples) : \E j \in HottestIn(Samples) : \E k \in DOMAIN Samples :
       /\ Samples[i].humidity /= Samples[k].humidity
       /\ Samples[j].salinity /= Samples[k].salinity
       /\ Samples[i].humidity = Samples[j].humidity
  /\ ReportOf(out).count = 14

AvgLt(a, b) == 10 * a.num < b * 10 * a.den

AvgEq(a, b) == 10 * a.num = b * 10 * a.den

AvgGt(a, b) == 10 * a.num > b * 10 * a.den

\* The reference table, its rows in priority order.
ReferenceTable(hum, sal) ==
  CASE AvgLt(hum, 450) /\ AvgGt(sal, 30) -> "NAO IRRIGAR (Risco de Salinidade Alta)"
    [] AvgLt(hum, 450) /\ ~AvgGt(sal, 30) -> "IRRIGAR (Umidade Baixa)"
    [] ~AvgLt(hum, 450) /\ AvgGt(hum, 800) -> "NAO IRRIGAR (Umidade Alta)"
    [] OTHER -> "NAO IRRIGAR (Nivel Ideal)"

\* C5: decideIrrigation returns the outcome of the reference table; humidity
\* of exactly 45.0 or exactly 80.0 gives the ideal level, and salinity of
\* exactly 3.0 with low humidity gives irrigation.
C5_DecisionTable ==
  op = "decideIrrigation"
    => LET d == out[1]
       IN  /\ d.decision = ReferenceTable(d.hum, d.sal)
           /\ AvgEq(d.hum, 450) \/ AvgEq(d.hum, 800) => d.decision = "NAO IRRIGAR (Nivel Ideal)"
           /\ AvgLt(d.hum, 450) /\ AvgEq(d.sal, 30) => d.decision = "IRRIGAR (Umidade Baixa)"

C5_Witness ==
  /\ op = "decideIrrigation"
  /\ AvgEq(out[1].hum, 450)
  /\ out[1].hum.den = 14
  /\ out[1].decision = "NAO IRRIGAR (Nivel Ideal)"

\* C6: after clearList, called in any state, the list is empty, every node is
\* released and the counter is 0.
C6_ClearEmpties ==
  op = "clearList" => dataListHead = NULL /\ sampleCount = 0 /\ DOMAIN heap = {}

\* clearList has run on a list that held the one varied sample.
C6_Witness ==
  /\ op = "clearList"
  /\ varied = 1
  /\ dataListHead = NULL

\* C7: processAndReportData called with a counter other than 16 changes
\* neither the list, the counter nor the timestamp, and prints nothing.
C7_ProcessNoOp ==
  [][(op' = "processAndReportData" /\ sampleCount /= SAMPLES_PER_CYCLE)
       => /\ heap' = heap
          /\ dataListHead' = dataListHead
          /\ sampleCount' = sampleCount
          /\ lastSampleTime' = lastSampleTime
          /\ out' = << >>]_vars

C7_Witness ==
  /\ op = "processAndReportData"
  /\ sampleCount = SAMPLES_PER_CYCLE + 1
  /\ out = << >>

\* C8: the list is released only by the step that follows the report of a
\* full cycle: sampling, processing, report, reset, idle, in this order, with
\* no sample collected from the 16th sample to the reset.
C8_ResetAfterReport ==
  [][/\ (dataListHead /= NULL /\ dataListHead' = NULL)
          => /\ pc = "resetting" /\ pc' = "idle"
             /\ sampleCount = SAMPLES_PER_CYCLE
             /\ out /= << >>
             /\ out[Len(out)] = processAndReportData(heap, dataListHead, sampleCount)[3]
             /\ out[Len(out)].line = "report"
     /\ (pc = "sampling" /\ sampleCount = SAMPLES_PER_CYCLE) => pc' \in {"sampling", "processing"}
     /\ pc = "processing" => pc' \in {"processing", "resetting"}
     /\ pc = "resetting" => pc' \in {"resetting", "idle"}
     /\ pc' = "processing" => pc \in {"sampling", "processing"}
     /\ pc' = "resetting" => pc \in {"processing", "resetting"}
     /\ (pc \in {"sampling", "processing", "resetting"} \/ pc' = "resetting")
          => sampleCount' <= sampleCount /\ (heap' = heap \/ heap' = << >>)]_vars

C8_Witness ==
  /\ pc = "idle"
  /\ op = "clearList"
  /\ dataListHead = NULL
  /\ Len(out) > 1
  /\ out[Len(out) - 1].line = "report"

\* C9: every sample collectSample stores has its temperature in [15.0, 35.0],
\* its humidity in [30.0, 90.0] and its salinity in [0.5, 4.0].
C9_SampleRanges ==
  \A a \in DOMAIN heap :
    /\ heap[a].data.temperature \in 150..350
    /\ heap[a].data.humidity \in 300..900
    /\ heap[a].data.salinity \in 5..40

\* The highest humidity rand() can give has been stored.
C9_Witness ==
  /\ dataListHead /= NULL
  /\ heap[dataListHead].data.humidity = 899

\* C10: a collectSample call puts one new sample in front of the stored ones,
\* which keep their values and order, and adds 1 to the counter, so that the
\* counter and the length agree after any number of calls from the empty list.
C10_CollectPrepends ==
  [][(op' = "collectSample" /\ heap' /= heap)
       => LET old == NodesFrom(heap, dataListHead)
              new == NodesFrom(heap', dataListHead')
          IN  /\ Len(new) = Len(old) + 1
              /\ \A i \in 1..Len(old) : new[i + 1] = old[i] /\ heap'[old[i]] = heap[old[i]]
              /\ new[1] \notin DOMAIN heap
              /\ DOMAIN heap' = DOMAIN heap \cup {new[1]}
              /\ sampleCount' = sampleCount + 1
              /\ (sampleCount = Len(old) => sampleCount' = Len(new))]_vars

\* 16 calls: the counter and the length are 16, the varied sample is inside.
C10_Witness ==
  /\ op = "collectSample"
  /\ sampleCount = SAMPLES_PER_CYCLE
  /\ Len(NodesFrom(heap, dataListHead)) = SAMPLES_PER_CYCLE
  /\ \E i \in 2..(SAMPLES_PER_CYCLE - 1) : Samples[i] /= Samples[1]

\* C11: a loop() iteration collects a sample exactly when the time since the
\* last timestamp is at least SAMPLE_INTERVAL: below it the iteration changes
\* and prints nothing, from it on the iteration stamps the time and collects
\* one sample, and the rest of the iteration collects none.
C11_GateIff ==
  [][/\ (pc = "idle" /\ now' = now)
          => IF hist.since < SAMPLE_INTERVAL
               THEN /\ heap' = heap /\ dataListHead' = dataListHead
                    /\ sampleCount' = sampleCount
                    /\ lastSampleTime' = lastSampleTime
                    /\ hist'.samples = hist.samples
                    /\ out' = << >> /\ pc' = "idle"
               ELSE /\ lastSampleTime' = now
                    /\ Len(NodesFrom(heap', dataListHead'))
                         = Len(NodesFrom(heap, dataListHead)) + 1
                    /\ sampleCount' = sampleCount + 1
                    /\ hist'.samples = hist.samples + 1
     /\ pc /= "idle" => DOMAIN heap' \subseteq DOMAIN heap /\ hist'.samples = hist.samples]_vars

\* An iteration with the gate closed, half an interval after the fifth sample.
C11_Witness ==
  /\ pc = "idle"
  /\ op = "loop"
  /\ out = << >>
  /\ sampleCount = 5
  /\ hist.since = TickStep

\* C12: the counter is in 0..16 and the list holds at most 16 samples; the
\* counter is 16 only inside the iteration that processes the cycle, is 0
\* after the reset and is at most 15 between iterations.
C12_CounterRange ==
  /\ sampleCount \in 0..SAMPLES_PER_CYCLE
  /\ Len(NodesFrom(heap, dataListHead)) <= SAMPLES_PER_CYCLE
  /\ pc = "idle" => sampleCount < SAMPLES_PER_CYCLE
  /\ (pc = "idle" /\ op = "clearList") => sampleCount = 0
  /\ sampleCount = SAMPLES_PER_CYCLE => pc \in {"sampling", "processing", "resetting"}

\* The counter is 16 in the second cycle.
C12_Witness ==
  /\ sampleCount = SAMPLES_PER_CYCLE
  /\ pc = "processing"
  /\ hist.reports = 1

\* C13: processAndReportData leaves the list and the counter as they are;
\* nodes are added by collectSample alone and removed by clearList alone, and
\* clearList starts on all 16 nodes, the two extreme ones among them.
C13_ProcessReadsOnly ==
  [][/\ (pc = "processing" /\ pc' = "resetting")
          => heap' = heap /\ dataListHead' = dataListHead /\ sampleCount' = sampleCount
     /\ heap' /= heap
          => \/ op' = "collectSample" /\ DOMAIN heap \subseteq DOMAIN heap'
                  /\ \A a \in DOMAIN heap : heap'[a] = heap[a]
             \/ op' = "clearList" /\ heap' = << >>
     /\ pc' = "resetting"
          => LET mm == MinMaxScan(heap', dataListHead', dataListHead', dataListHead')
                 ns == NodesFrom(heap', dataListHead')
             IN  /\ Len(ns) = SAMPLES_PER_CYCLE
                 /\ \E i, j \in DOMAIN ns : ns[i] = mm[1] /\ ns[j] = mm[2]]_vars

\* The report left two samples out and the list still holds 16.
C13_Witness ==
  /\ pc = "resetting"
  /\ HasReport(out)
  /\ ReportOf(out).count = 14
  /\ Len(NodesFrom(heap, dataListHead)) = SAMPLES_PER_CYCLE

\* C14: the list holds the samples collected since the last reset and no
\* others: between iterations floor(n / 16) reports are printed after n
\* samples and the list holds the other n mod 16; a report is computed from
\* the 16 samples of its own cycle.
C14_NoCarryOver ==
  LET n == hist.samples
      k == hist.reports
  IN  /\ pc /= "resetting" => Len(Samples) = n - SAMPLES_PER_CYCLE * k
      /\ pc = "idle" => k = n \div SAMPLES_PER_CYCLE /\ sampleCount = n % SAMPLES_PER_CYCLE
      /\ pc = "resetting"
           => /\ n = SAMPLES_PER_CYCLE * k
              /\ Len(Samples) = SAMPLES_PER_CYCLE
              /\ \E i, j \in DOMAIN Samples : ReportExcludes(ReportOf(out), Samples, {i, j})

\* The second report, after 32 samples.
C14_Witness ==
  /\ pc = "resetting"
  /\ hist.samples = 2 * SAMPLES_PER_CYCLE
  /\ hist.reports = 2

\* C19: the live nodes are the nodes of the list, each once, as many as the
\* counter says, and every next pointer is null or live; after clearList no
\* node is live; the head is live when the status line and when
\* processAndReportData read it, and so are minNode and maxNode.
C19_MemorySafe ==
  LET ns == NodesFrom(heap, dataListHead)
      mm == MinMaxScan(heap, dataListHead, dataListHead, dataListHead)
  IN  /\ DOMAIN heap = {ns[i] : i \in DOMAIN ns}
      /\ Cardinality(DOMAIN heap) = Len(ns)
      /\ Cardinality(DOMAIN heap) = sampleCount
      /\ \A a \in DOMAIN heap : heap[a].next \in DOMAIN heap \cup {NULL}
      /\ op = "clearList" => DOMAIN heap = {}
      /\ pc \in {"sampling", "processing"} => dataListHead \in DOMAIN heap
      /\ pc = "processing" => mm[1] \in DOMAIN heap /\ mm[2] \in DOMAIN heap

\* The second reset has freed the second 16 nodes.
C19_Witness ==
  /\ op = "clearList"
  /\ DOMAIN heap = {}
  /\ hist.samples = 2 * SAMPLES_PER_CYCLE

FirstOf(I) == CHOOSE i \in I : \A j \in I : i <= j

\* C17: of several samples with the minimum (maximum) temperature the one
\* nearest to the front of the list is left out; the others stay in the
\* three sums.
C17_FirstTiedExcluded ==
  (op = "processAndReportData" /\ sampleCount = SAMPLES_PER_CYCLE)
    => ReportExcludes(ReportOf(out), Samples,
                      {FirstOf(ColdestIn(Samples)), FirstOf(HottestIn(Samples))})

\* Two coldest samples that differ in humidity and in salinity.
C17_Witness ==
  /\ op = "processAndReportData"
  /\ Cardinality(ColdestIn(Samples)) = 2
  /\ \E i, j \in ColdestIn(Samples) :
       /\ Samples[i].humidity /= Samples[j].humidity
       /\ Samples[i].salinity /= Samples[j].salinity
  /\ Cardinality(HottestIn(Samples)) > 1

\* C18: two calls of decideIrrigation with the same humidity and salinity and
\* different temperatures return the same label.
C18_TemperatureUnused ==
  op = "decideIrrigation twice"
    => /\ out[1].hum = out[2].hum /\ out[1].sal = out[2].sal
       /\ out[1].temp /= out[2].temp
       /\ out[1].decision = out[2].decision

\* A cool and a hot call at ideal humidity.
C18_Witness ==
  /\ op = "decideIrrigation twice"
  /\ AvgLt(out[1].temp, 200)
  /\ AvgGt(out[2].temp, 300)
  /\ AvgEq(out[1].hum, 600)
  /\ out[1].decision = "NAO IRRIGAR (Nivel Ideal)"

\* C15: the program never ends: samples are collected again and again, every
\* cycle that has started is reported and reset, and the program is idle with
\* an empty list again and again.
C15_RunsForever ==
  /\ []<>(pc = "sampling" /\ op = "collectSample")
  /\ (sampleCount > 0) ~> (pc = "processing" /\ sampleCount = SAMPLES_PER_CYCLE)
  /\ (sampleCount > 0) ~> (pc = "resetting" /\ HasReport(out))
  /\ (pc = "resetting") ~> (pc = "idle" /\ dataListHead = NULL /\ sampleCount = 0)
  /\ []<>(pc = "idle" /\ dataListHead = NULL /\ sampleCount = 0)
  /\ []<>(pc = "resetting" /\ HasReport(out))

\* A reset in an iteration stamped 0: the counter has wrapped since the start.
C15_Witness ==
  /\ pc = "idle"
  /\ op = "clearList"
  /\ dataListHead = NULL
  /\ lastSampleTime = 0
  /\ varied = 1

\* C20: with polls at most PollGap ms apart, the elapsed time computed modulo
\* the counter's range is the real time since the last timestamp, across
\* wraps of the counter: a sample is collected only when at least
\* SAMPLE_INTERVAL ms of real time have passed since the previous one, and a
\* poll that finds so much real time passed collects one.
C20_WrapSafe ==
  /\ [](Elapsed(now, lastSampleTime) = hist.since)
  /\ [][(hist'.samples > hist.samples) => (hist.since >= SAMPLE_INTERVAL)]_vars
  /\ [][(pc = "idle" /\ hist.since >= SAMPLE_INTERVAL)
          => (hist'.samples = hist.samples + 1 /\ lastSampleTime' = now)]_vars
  /\ [][(pc = "idle" /\ hist.since < SAMPLE_INTERVAL)
          => (hist'.samples = hist.samples)]_vars

\* A sample that is not the first and is stamped below SAMPLE_INTERVAL: the
\* counter has wrapped since the sample before it.
C20_Witness ==
  /\ pc = "sampling"
  /\ op = "collectSample"
  /\ hist.samples > 1
  /\ lastSampleTime = now
  /\ now < SAMPLE_INTERVAL

====
